---- MODULE Spec2Model ----
(***************************************************************************)
(* State-machine model of the pi_scene batching and culling core:          *)
(*   crates/pi_scene_spine/src/mesh.rs            Mesh, VertexAttribute    *)
(*   crates/pi_scene_spine/src/shape_renderer.rs  ShapeRenderer            *)
(*   crates/pi_scene_context/src/culling/mod.rs   BoundingInfo,            *)
(*                                                check_boundings          *)
(* Option<T> is modelled as a sequence of length 0 (None) or 1 (Some).     *)
(* A panic is modelled as the result "panic" of the call, with the state   *)
(* the unwinding leaves behind.                                            *)
(***************************************************************************)
EXTENDS Integers, Sequences, FiniteSets, TLC

VARIABLES
    meshes,         \* ShapeRenderer.meshes: Vec<Mesh>, each a record of Mesh's fields
    shader,         \* ShapeRenderer.shader
    blend,          \* ShapeRenderer.blend
    is_drawing,     \* ShapeRenderer.is_drawing
    draw_calls,     \* ShapeRenderer.draw_calls
    pipeline_key,   \* ShapeRenderer.pipeline_key
    vertex_index,   \* ShapeRenderer.vertex_index
    boundings,      \* the Vec<BoundingInfo> handed to check_boundings
    result,         \* the Vec<bool> handed to check_boundings
    ret             \* the last call: its name, argument, outcome and output

vars == <<meshes, shader, blend, is_drawing, draw_calls, pipeline_key,
          vertex_index, boundings, result, ret>>

None == <<>>
Some(x) == <<x>>

----------------------------------------------------------------------------
(* Bounds of the model *)

\* crate::MAX_VERTICES, scaled down
MAX_VERTICES == 1

\* the most meshes the caller pushes onto ShapeRenderer.meshes
PoolSize == 2

\* the largest value the caller advances ShapeRenderer.draw_calls to
MaxDrawCalls == 1

\* the most bounding infos handed to check_boundings
MaxBoundings == 2

----------------------------------------------------------------------------
(* mesh.rs: VertexAttribute *)

position_2 == [name |-> "Position", num_elements |-> 2]
texcoords == [name |-> "Textcoords", num_elements |-> 2]
color == [name |-> "Color", num_elements |-> 4]
color2 == [name |-> "Color2", num_elements |-> 4]

RECURSIVE elements(_)
elements(attributes) ==
    IF attributes = <<>> THEN 0
    ELSE Head(attributes).num_elements + elements(Tail(attributes))

EShader == {"Colored", "ColoredTextured", "TwoColoredTextured"}

\* the match of Mesh::init on the shader variant
shader_attributes(s) ==
    CASE s = "Colored" -> <<position_2, color>>
      [] s = "ColoredTextured" -> <<position_2, color, texcoords>>
      [] s = "TwoColoredTextured" -> <<position_2, color, texcoords, color2>>

----------------------------------------------------------------------------
(* The device: buffer handles *)

\* the ids of the buffers the meshes ms hold
live_buffers(ms) ==
    { ms[i].vertices_buffer[1].id : i \in { j \in DOMAIN ms : ms[j].vertices_buffer # None } }
    \cup
    { ms[i].indices_buffer[1].id : i \in { j \in DOMAIN ms : ms[j].indices_buffer # None } }

\* device.create_buffer_init: a buffer no mesh holds, sized by its contents
create_buffer_init(ms, contents) ==
    [id |-> CHOOSE n \in 1..(Cardinality(live_buffers(ms)) + 1) : n \notin live_buffers(ms),
     size |-> Len(contents)]

----------------------------------------------------------------------------
(* mesh.rs: Mesh *)

Mesh_new ==
    [shader |-> None, vertices |-> <<>>, indices |-> <<>>, attributes |-> <<>>,
     num_vertices |-> 0, num_indices |-> 0,
     dirty_vertices |-> FALSE, dirty_indices |-> FALSE,
     vertices_length |-> 0, indices_length |-> 0,
     vertices_buffer |-> None, indices_buffer |-> None,
     element_per_vertex |-> 0]

zeros(n) == [k \in 1..n |-> 0]

\* crate::vec_set(vec, data, offset): data copied over vec from offset on
vec_set(vec, data, offset) ==
    [k \in 1..Len(vec) |->
        IF k > offset /\ k <= offset + Len(data) THEN data[k - offset] ELSE vec[k]]

\* the reallocation without lines 100-101: the buffer handles survive
Mesh_init_realloc_keeps_buffers(m, epv) ==
    [m EXCEPT !.num_vertices = MAX_VERTICES * epv,
              !.num_indices = MAX_VERTICES * 3,
              !.vertices = zeros(MAX_VERTICES * epv),
              !.indices = zeros(MAX_VERTICES * 3)]

\* Mesh::init, lines 87-102: the reallocation
Mesh_init_realloc(m, epv) ==
    [m EXCEPT !.num_vertices = MAX_VERTICES * epv,
              !.num_indices = MAX_VERTICES * 3,
              !.vertices = zeros(MAX_VERTICES * epv),
              !.indices = zeros(MAX_VERTICES * 3),
              !.vertices_buffer = None,
              !.indices_buffer = None]

\* Mesh::init, line 88: the branch the call takes
Mesh_init_branch(m, s) ==
    IF elements(shader_attributes(s)) > m.element_per_vertex THEN "realloc" ELSE "keep"

\* init without lines 105-108: the dirty flags and the logical lengths stay
Mesh_init_keeps_lengths(m, s) ==
    LET attrs == shader_attributes(s)
        epv == elements(attrs)
        m1 == [m EXCEPT !.attributes = attrs]
        m2 == IF Mesh_init_branch(m, s) = "realloc" THEN Mesh_init_realloc(m1, epv) ELSE m1
    IN [m2 EXCEPT !.element_per_vertex = epv,
                  !.shader = Some(s)]

Mesh_init(m, s) ==
    LET attrs == shader_attributes(s)
        epv == elements(attrs)
        m1 == [m EXCEPT !.attributes = attrs]
        m2 == IF Mesh_init_branch(m, s) = "realloc" THEN Mesh_init_realloc(m1, epv) ELSE m1
    IN [m2 EXCEPT !.element_per_vertex = epv,
                  !.shader = Some(s),
                  !.dirty_vertices = FALSE,
                  !.dirty_indices = FALSE,
                  !.vertices_length = 0,
                  !.indices_length = 0]

\* what an init call did: the branch of line 88 it took and the buffers the
\* mesh held before and holds no more
Mesh_init_effect(m, s) ==
    [branch |-> Mesh_init_branch(m, s),
     dropped |-> IF Mesh_init(m, s).vertices_buffer = None
                    /\ Mesh_init(m, s).indices_buffer = None
                 THEN live_buffers(<<m>>) ELSE {}]

Mesh_set_vertices_length(m, length) ==
    [m EXCEPT !.dirty_vertices = TRUE, !.vertices_length = length]

Mesh_set_indices_length(m, length) ==
    [m EXCEPT !.dirty_indices = TRUE, !.indices_length = length]

\* the test of set_vertices / set_indices with > written as >=
exceeds_capacity_at_equal(data, store) == Len(data) >= Len(store)

\* the test of set_vertices / set_indices: the data does not fit the storage
exceeds_capacity(data, store) == Len(data) > Len(store)

\* the upload of set_vertices / set_indices creating a buffer on every write
upload_always_creates(ms, buf, contents) ==
    [buffer |-> Some(create_buffer_init(ms, contents)), gpu |-> "create"]

\* the upload of set_vertices / set_indices: create_buffer_init when the mesh
\* holds no handle ("create"), queue.write_buffer at offset 0 otherwise ("write")
upload(ms, buf, contents) ==
    IF buf = None
    THEN [buffer |-> Some(create_buffer_init(ms, contents)), gpu |-> "create"]
    ELSE [buffer |-> buf, gpu |-> "write"]

\* set_vertices creating and writing the buffer from the data alone, not from
\* the whole backing storage
Mesh_set_vertices_uploads_data(ms, i, data) ==
    LET m == [ms[i] EXCEPT !.dirty_vertices = TRUE]
    IN IF exceeds_capacity(data, m.vertices)
       THEN [mesh |-> m, result |-> "Err", gpu |-> "none"]
       ELSE LET m1 == [m EXCEPT !.vertices = vec_set(m.vertices, data, 0),
                                !.vertices_length = Len(data)]
                up == upload(ms, m1.vertices_buffer, data)
            IN [mesh |-> [m1 EXCEPT !.vertices_buffer = up.buffer],
                result |-> "Ok", gpu |-> up.gpu]

\* Mesh::set_vertices on mesh i of ms: the mesh afterwards, the Result and
\* what was asked of the device
Mesh_set_vertices(ms, i, data) ==
    LET m == [ms[i] EXCEPT !.dirty_vertices = TRUE]
    IN IF exceeds_capacity(data, m.vertices)
       THEN [mesh |-> m, result |-> "Err", gpu |-> "none"]
       ELSE LET m1 == [m EXCEPT !.vertices = vec_set(m.vertices, data, 0),
                                !.vertices_length = Len(data)]
                up == upload(ms, m1.vertices_buffer, m1.vertices)
            IN [mesh |-> [m1 EXCEPT !.vertices_buffer = up.buffer],
                result |-> "Ok", gpu |-> up.gpu]

Mesh_set_indices(ms, i, data) ==
    LET m == [ms[i] EXCEPT !.dirty_indices = TRUE]
    IN IF exceeds_capacity(data, m.indices)
       THEN [mesh |-> m, result |-> "Err", gpu |-> "none"]
       ELSE LET m1 == [m EXCEPT !.indices = vec_set(m.indices, data, 0),
                                !.indices_length = Len(data)]
                up == upload(ms, m1.indices_buffer, m1.indices)
            IN [mesh |-> [m1 EXCEPT !.indices_buffer = up.buffer],
                result |-> "Ok", gpu |-> up.gpu]

\* Mesh::draw without the unwrap of the index buffer
Mesh_draw_unchecked_indices(m) ==
    IF m.vertices_buffer = None
    THEN [result |-> "panic", cmds |-> <<>>]
    ELSE [result |-> "Ok",
          cmds |-> <<[cmd |-> "set_vertex_buffer", buffer |-> m.vertices_buffer[1].id],
                     [cmd |-> "draw_indexed", first |-> 0, last |-> m.indices_length]>>]

\* Mesh::draw: the commands recorded on the render pass, up to the unwrap
\* that panics
Mesh_draw(m) ==
    IF m.vertices_buffer = None
    THEN [result |-> "panic", cmds |-> <<>>]
    ELSE IF m.indices_buffer = None
    THEN [result |-> "panic",
          cmds |-> <<[cmd |-> "set_vertex_buffer", buffer |-> m.vertices_buffer[1].id]>>]
    ELSE [result |-> "Ok",
          cmds |-> <<[cmd |-> "set_vertex_buffer", buffer |-> m.vertices_buffer[1].id],
                     [cmd |-> "set_index_buffer", buffer |-> m.indices_buffer[1].id],
                     [cmd |-> "draw_indexed", first |-> 0, last |-> m.indices_length]>>]

----------------------------------------------------------------------------
(* culling: vectors, matrices, planes *)

Vector3_new(x, y, z) == <<x, y, z>>
Vector3_zeros == <<0, 0, 0>>

dot(a, b) == a[1] * b[1] + a[2] * b[2] + a[3] * b[3]
abs(x) == IF x < 0 THEN -x ELSE x
max2(a, b) == IF a >= b THEN a ELSE b

\* a world matrix: the rows of its upper-left 3x3 block and its translation
Matrix_new(r0, r1, r2, t) == [rows |-> <<r0, r1, r2>>, translation |-> t]
Matrix_identity == Matrix_new(<<1, 0, 0>>, <<0, 1, 0>>, <<0, 0, 1>>, <<0, 0, 0>>)
Matrix_translation(t) == Matrix_new(<<1, 0, 0>>, <<0, 1, 0>>, <<0, 0, 1>>, t)
Matrix_scaling(k) == Matrix_new(<<k, 0, 0>>, <<0, k, 0>>, <<0, 0, k>>, <<0, 0, 0>>)

\* world.slice((i, 0), (1, 3)): row i, columns 0..2
Matrix_row(world, i) == world.rows[i + 1]

\* a point carried into world space
transform_coordinates(v, world) ==
    <<dot(world.rows[1], v) + world.translation[1],
      dot(world.rows[2], v) + world.translation[2],
      dot(world.rows[3], v) + world.translation[3]>>

\* the largest scale the matrix applies along an axis (axis-scaling matrices)
max_axis_scale(world) ==
    max2(abs(world.rows[1][1]), max2(abs(world.rows[2][2]), abs(world.rows[3][3])))

\* the half-space normal . p + d >= 0
Plane_new(normal, d) == [normal |-> normal, d |-> d]
signed_distance(plane, p) == dot(plane.normal, p) + plane.d

\* FrustumPlanes: six planes; here the axis-aligned frustum |x|,|y|,|z| <= l
FrustumPlanes_new(l) ==
    <<Plane_new(<<0, 0, 1>>, l), Plane_new(<<0, 0, -1>>, l),
      Plane_new(<<1, 0, 0>>, l), Plane_new(<<-1, 0, 0>>, l),
      Plane_new(<<0, -1, 0>>, l), Plane_new(<<0, 1, 0>>, l)>>

----------------------------------------------------------------------------
(* culling/bounding_sphere.rs and culling/bounding_box.rs *)

\* the radius is kept squared: half the diagonal of the extents
BoundingSphere_update(s, world) ==
    [s EXCEPT !.center_world = transform_coordinates(s.center, world),
              !.radius_world_sq = s.radius_sq * max_axis_scale(world) * max_axis_scale(world)]

BoundingSphere_new(min, max, world) ==
    BoundingSphere_update(
        [center |-> <<(min[1] + max[1]) \div 2, (min[2] + max[2]) \div 2,
                      (min[3] + max[3]) \div 2>>,
         radius_sq |-> dot(<<max[1] - min[1], max[2] - min[2], max[3] - min[3]>>,
                           <<max[1] - min[1], max[2] - min[2], max[3] - min[3]>>) \div 4,
         center_world |-> Vector3_zeros,
         radius_world_sq |-> 0],
        world)

\* outside as soon as the centre lies further than the radius behind a plane
BoundingSphere_is_in_frustum(s, frustum_planes) ==
    \A k \in DOMAIN frustum_planes :
        LET dist == signed_distance(frustum_planes[k], s.center_world)
        IN ~(dist < 0 /\ dist * dist > s.radius_world_sq)

box_corners(min, max) ==
    <<<<min[1], min[2], min[3]>>, <<max[1], max[2], max[3]>>,
      <<max[1], min[2], min[3]>>, <<min[1], max[2], min[3]>>,
      <<min[1], min[2], max[3]>>, <<max[1], max[2], min[3]>>,
      <<min[1], max[2], max[3]>>, <<max[1], min[2], max[3]>>>>

BoundingBox_new(min, max, world) ==
    [minimum |-> min, maximum |-> max,
     vectors_world |-> [k \in 1..8 |-> transform_coordinates(box_corners(min, max)[k], world)]]

\* outside when all eight corners lie behind one plane
BoundingBox_is_in_frustum(b, frustum_planes) ==
    \A k \in DOMAIN frustum_planes :
        \E c \in DOMAIN b.vectors_world :
            signed_distance(frustum_planes[k], b.vectors_world[c]) >= 0

----------------------------------------------------------------------------
(* culling/mod.rs: BoundingInfo, check_boundings *)

ECullingStrategy == {"Optimistic", "STANDARD"}

BoundingInfo_default ==
    LET minimum == Vector3_new(-1, -1, -1)
        maximum == Vector3_new(1, 1, 1)
        world == Matrix_identity
    IN [minimum |-> minimum, maximum |-> maximum,
        bounding_box |-> BoundingBox_new(minimum, maximum, world),
        bounding_sphere |-> BoundingSphere_new(minimum, maximum, world),
        direction0 |-> Vector3_zeros,
        direction1 |-> Vector3_zeros,
        direction2 |-> Vector3_zeros,
        culling_strategy |-> "STANDARD"]

BoundingInfo_reset(b, min, max, world) ==
    [b EXCEPT !.minimum = min,
              !.maximum = max,
              !.bounding_box = BoundingBox_new(min, max, world),
              !.bounding_sphere = BoundingSphere_new(min, max, world),
              !.direction0 = Matrix_row(world, 0),
              !.direction1 = Matrix_row(world, 1),
              !.direction2 = Matrix_row(world, 2)]

BoundingInfo_update(b, world) ==
    [b EXCEPT !.bounding_box = BoundingBox_new(b.minimum, b.maximum, world),
              !.bounding_sphere = BoundingSphere_update(b.bounding_sphere, world)]

\* is_in_frustum running both stages whatever the sphere test says
BoundingInfo_is_in_frustum_both_stages(b, frustum_planes) ==
    [value |-> BoundingSphere_is_in_frustum(b.bounding_sphere, frustum_planes)
               /\ BoundingBox_is_in_frustum(b.bounding_box, frustum_planes),
     sphere_tests |-> 1, box_tests |-> 1]

\* BoundingInfo::is_in_frustum, with the number of times each stage ran
BoundingInfo_is_in_frustum(b, frustum_planes) ==
    IF ~BoundingSphere_is_in_frustum(b.bounding_sphere, frustum_planes)
    THEN [value |-> FALSE, sphere_tests |-> 1, box_tests |-> 0]
    ELSE [value |-> BoundingBox_is_in_frustum(b.bounding_box, frustum_planes),
          sphere_tests |-> 1, box_tests |-> 1]

\* the loop of check_boundings from index on, pushing onto res_vec
RECURSIVE check_boundings_loop(_, _, _, _)
check_boundings_loop(bs, frustum_planes, index, res_vec) ==
    IF index >= Len(bs) THEN res_vec
    ELSE check_boundings_loop(bs, frustum_planes, index + 1,
            Append(res_vec, BoundingInfo_is_in_frustum(bs[index + 1], frustum_planes).value))

\* check_boundings pushing onto *result instead of a fresh vector
check_boundings_result_appends(bs, frustum_planes, old_result) ==
    check_boundings_loop(bs, frustum_planes, 0, old_result)

\* check_boundings: the new contents of *result
check_boundings_result(bs, frustum_planes, old_result) ==
    check_boundings_loop(bs, frustum_planes, 0, <<>>)

----------------------------------------------------------------------------
(* shape_renderer.rs: ShapeRenderer *)

\* SpinePipeline::check: the key of the pipeline for the combination
SpinePipeline_check(s, bl, target_format, depth_stencil) ==
    [shader |-> s, blend |-> bl, format |-> target_format, depth_stencil |-> depth_stencil]

\* begin without the reset of the draw-call counter
ShapeRenderer_begin_keeps_draw_calls(cur, target_format, depth_stencil) ==
    [cur EXCEPT !.is_drawing = TRUE,
                !.pipeline_key =
                    Some(SpinePipeline_check(cur.shader, cur.blend, target_format, depth_stencil))]

\* begin starting the frame's vertices over at offset 0
ShapeRenderer_begin_resets_cursor(cur, target_format, depth_stencil) ==
    [cur EXCEPT !.draw_calls = 0,
                !.is_drawing = TRUE,
                !.vertex_index = 0,
                !.pipeline_key =
                    Some(SpinePipeline_check(cur.shader, cur.blend, target_format, depth_stencil))]

\* ShapeRenderer::begin: the fields it assigns
ShapeRenderer_begin(cur, target_format, depth_stencil) ==
    [cur EXCEPT !.draw_calls = 0,
                !.is_drawing = TRUE,
                !.pipeline_key =
                    Some(SpinePipeline_check(cur.shader, cur.blend, target_format, depth_stencil))]

\* the floats of v that vertices[idx] = .. stores before an index is out of bounds
vertex_stored(vertices, idx, v) ==
    IF idx >= Len(vertices) THEN 0
    ELSE IF idx + Len(v) <= Len(vertices) THEN Len(v)
    ELSE Len(vertices) - idx

\* the stores vertices[idx] = x; idx += 1; .. of the first n floats of v
vertex_stores(vertices, idx, v, n) ==
    [k \in DOMAIN vertices |-> IF k > idx /\ k <= idx + n THEN v[k - idx] ELSE vertices[k]]

\* ShapeRenderer::new: the attribute layout of the renderer and its stride
ShapeRenderer_attributes == <<position_2, color>>

ShapeRenderer_elements_per_vertex == elements(ShapeRenderer_attributes)

\* vertex advancing the cursor by the stride of the mesh it writes
ShapeRenderer_vertex_mesh_stride(ms, dc, vi, v) ==
    IF dc >= Len(ms)
    THEN [meshes |-> ms, vertex_index |-> vi, result |-> "panic"]
    ELSE LET vertices == ms[dc + 1].vertices
             n == vertex_stored(vertices, vi, v)
             written == vertex_stores(vertices, vi, v, n)
         IN [meshes |-> [ms EXCEPT ![dc + 1].vertices = written],
             vertex_index |-> IF n = Len(v) THEN vi + ms[dc + 1].element_per_vertex ELSE vi,
             result |-> IF n = Len(v) THEN "Ok" ELSE "panic"]

\* vertex keeping the cursor in self.vertex_index, advanced store by store
ShapeRenderer_vertex_counts_stores(ms, dc, vi, v) ==
    IF dc >= Len(ms)
    THEN [meshes |-> ms, vertex_index |-> vi, result |-> "panic"]
    ELSE LET vertices == ms[dc + 1].vertices
             n == vertex_stored(vertices, vi, v)
             written == vertex_stores(vertices, vi, v, n)
         IN [meshes |-> [ms EXCEPT ![dc + 1].vertices = written],
             vertex_index |-> vi + n,
             result |-> IF n = Len(v) THEN "Ok" ELSE "panic"]

\* vertex writing the first mesh of the pool whatever draw_calls is
ShapeRenderer_vertex_first_mesh(ms, dc, vi, v) ==
    IF dc >= Len(ms)
    THEN [meshes |-> ms, vertex_index |-> vi, result |-> "panic"]
    ELSE LET vertices == ms[1].vertices
             n == vertex_stored(vertices, vi, v)
             written == vertex_stores(vertices, vi, v, n)
         IN [meshes |-> [ms EXCEPT ![1].vertices = written],
             vertex_index |-> IF n = Len(v) THEN vi + Len(v) ELSE vi,
             result |-> IF n = Len(v) THEN "Ok" ELSE "panic"]

\* ShapeRenderer::vertex, v = <<x, y, r, g, b, a>>
ShapeRenderer_vertex(ms, dc, vi, v) ==
    IF dc >= Len(ms)
    THEN [meshes |-> ms, vertex_index |-> vi, result |-> "panic"]
    ELSE LET vertices == ms[dc + 1].vertices
             n == vertex_stored(vertices, vi, v)
             written == vertex_stores(vertices, vi, v, n)
         IN [meshes |-> [ms EXCEPT ![dc + 1].vertices = written],
             vertex_index |-> IF n = Len(v) THEN vi + Len(v) ELSE vi,
             result |-> IF n = Len(v) THEN "Ok" ELSE "panic"]

----------------------------------------------------------------------------
(* The calls *)

Call(op, arg, res, out, pre) ==
    [op |-> op, arg |-> arg, result |-> res, out |-> out, pre |-> pre]

NoCall == Call("new", <<>>, "Ok", <<>>, <<>>)

\* the data handed to set_vertices / set_indices: 1, 2, .., n
ramp(n) == [k \in 1..n |-> k]

\* lengths at and around every capacity the variants allocate
VertexDataLens ==
    {0} \cup { MAX_VERTICES * e + k : e \in {6, 8, 12}, k \in {0, 1} }

IndexDataLens == {0, MAX_VERTICES * 3, MAX_VERTICES * 3 + 1}

\* the lengths handed to set_vertices_length / set_indices_length: nothing,
\* some, and more than any capacity
VertexLengths == {0, 2, MAX_VERTICES * 12 + 1}

IndexLengths == {0, 2, MAX_VERTICES * 3 + 1}

RendererUnchanged ==
    UNCHANGED <<shader, blend, is_drawing, draw_calls, pipeline_key, vertex_index>>

CullingUnchanged == UNCHANGED <<boundings, result>>

init(shaders) ==
    \E i \in DOMAIN meshes, s \in shaders :
        /\ meshes' = [meshes EXCEPT ![i] = Mesh_init(meshes[i], s)]
        /\ ret' = Call("init", [mesh |-> i, shader |-> s], "Ok",
                       Mesh_init_effect(meshes[i], s), <<>>)
        /\ RendererUnchanged /\ CullingUnchanged

set_vertices(lens) ==
    \E i \in DOMAIN meshes, n \in lens :
        LET r == Mesh_set_vertices(meshes, i, ramp(n))
        IN /\ meshes' = [meshes EXCEPT ![i] = r.mesh]
           /\ ret' = Call("set_vertices", [mesh |-> i, data |-> ramp(n)], r.result, r.gpu, <<>>)
           /\ RendererUnchanged /\ CullingUnchanged

set_indices(lens) ==
    \E i \in DOMAIN meshes, n \in lens :
        LET r == Mesh_set_indices(meshes, i, ramp(n))
        IN /\ meshes' = [meshes EXCEPT ![i] = r.mesh]
           /\ ret' = Call("set_indices", [mesh |-> i, data |-> ramp(n)], r.result, r.gpu, <<>>)
           /\ RendererUnchanged /\ CullingUnchanged

set_vertices_length ==
    \E i \in DOMAIN meshes, length \in VertexLengths :
        /\ meshes' = [meshes EXCEPT ![i] = Mesh_set_vertices_length(meshes[i], length)]
        /\ ret' = Call("set_vertices_length", [mesh |-> i, length |-> length], "Ok", <<>>, <<>>)
        /\ RendererUnchanged /\ CullingUnchanged

set_indices_length ==
    \E i \in DOMAIN meshes, length \in IndexLengths :
        /\ meshes' = [meshes EXCEPT ![i] = Mesh_set_indices_length(meshes[i], length)]
        /\ ret' = Call("set_indices_length", [mesh |-> i, length |-> length], "Ok", <<>>, <<>>)
        /\ RendererUnchanged /\ CullingUnchanged

draw ==
    \E i \in DOMAIN meshes :
        LET r == Mesh_draw(meshes[i])
        IN /\ ret' = Call("draw", [mesh |-> i], r.result, r.cmds, <<>>)
           /\ UNCHANGED meshes
           /\ RendererUnchanged /\ CullingUnchanged

----------------------------------------------------------------------------
(* Spec: one Mesh and the calls of mesh.rs *)

RendererNew ==
    /\ shader = "Colored"
    /\ blend = None
    /\ is_drawing = FALSE
    /\ draw_calls = 0
    /\ pipeline_key = None
    /\ vertex_index = 0

Init ==
    /\ meshes = <<Mesh_new>>
    /\ RendererNew
    /\ boundings = <<>>
    /\ result = <<>>
    /\ ret = NoCall

Next ==
    \/ init(EShader)
    \/ set_vertices(VertexDataLens)
    \/ set_indices(IndexDataLens)
    \/ set_vertices_length
    \/ set_indices_length
    \/ draw

Spec == Init /\ [][Next]_vars

\* SpecLive: the caller of Spec never stops calling
SpecLive == Spec /\ WF_vars(Next)

----------------------------------------------------------------------------
(* SpecCulling: a Vec<BoundingInfo> and the calls of culling/mod.rs *)

\* the local extents handed to reset: the cube of half-side 2 (default() is
\* the unit cube)
Extents == {<<Vector3_new(-2, -2, -2), Vector3_new(2, 2, 2)>>}

Worlds == {Matrix_identity, Matrix_translation(<<5, 0, 0>>)}

\* the frustums handed in, each named by its half-width
Frustums == {2, 4}

\* what the caller's result vector may hold before the first call
InitialResults == {<<>>, <<TRUE, FALSE, TRUE>>}

MeshUnchanged == UNCHANGED meshes

\* the caller pushes BoundingInfo::default() onto its vector
push_bounding ==
    /\ Len(boundings) < MaxBoundings
    /\ boundings' = Append(boundings, BoundingInfo_default)
    /\ ret' = Call("default", <<>>, "Ok", <<>>, <<>>)
    /\ UNCHANGED result
    /\ MeshUnchanged /\ RendererUnchanged

reset ==
    \E i \in DOMAIN boundings, e \in Extents, world \in Worlds :
        /\ boundings' = [boundings EXCEPT ![i] = BoundingInfo_reset(boundings[i], e[1], e[2], world)]
        /\ ret' = Call("reset", <<>>, "Ok", <<>>, <<>>)
        /\ UNCHANGED result
        /\ MeshUnchanged /\ RendererUnchanged

update ==
    \E i \in DOMAIN boundings, world \in Worlds :
        /\ boundings' = [boundings EXCEPT ![i] = BoundingInfo_update(boundings[i], world)]
        /\ ret' = Call("update", <<>>, "Ok", <<>>, <<>>)
        /\ UNCHANGED result
        /\ MeshUnchanged /\ RendererUnchanged

\* the caller assigns the public field culling_strategy
set_culling_strategy ==
    \E i \in DOMAIN boundings, strategy \in ECullingStrategy :
        /\ boundings' = [boundings EXCEPT ![i].culling_strategy = strategy]
        /\ ret' = Call("culling_strategy", <<>>, "Ok", <<>>, <<>>)
        /\ UNCHANGED result
        /\ MeshUnchanged /\ RendererUnchanged

is_in_frustum ==
    \E i \in DOMAIN boundings, l \in Frustums :
        LET r == BoundingInfo_is_in_frustum(boundings[i], FrustumPlanes_new(l))
        IN /\ ret' = Call("is_in_frustum", [index |-> i, frustum |-> l],
                          r.value, [sphere_tests |-> r.sphere_tests, box_tests |-> r.box_tests],
                          <<>>)
           /\ UNCHANGED <<boundings, result>>
           /\ MeshUnchanged /\ RendererUnchanged

\* check_boundings taking the bounding infos by value and leaving none behind
check_boundings_consuming ==
    \E l \in Frustums :
        /\ result' = check_boundings_result(boundings, FrustumPlanes_new(l), result)
        /\ ret' = Call("check_boundings", [frustum |-> l], "Ok", <<>>,
                       [result_len |-> Len(result)])
        /\ boundings' = <<>>
        /\ MeshUnchanged /\ RendererUnchanged

check_boundings ==
    \E l \in Frustums :
        /\ result' = check_boundings_result(boundings, FrustumPlanes_new(l), result)
        /\ ret' = Call("check_boundings", [frustum |-> l], "Ok", <<>>,
                       [result_len |-> Len(result)])
        /\ UNCHANGED boundings
        /\ MeshUnchanged /\ RendererUnchanged

InitCulling ==
    /\ meshes = <<>>
    /\ RendererNew
    /\ boundings = <<>>
    /\ result \in InitialResults
    /\ ret = NoCall

NextCulling ==
    \/ push_bounding
    \/ reset
    \/ update
    \/ set_culling_strategy
    \/ is_in_frustum
    \/ check_boundings

SpecCulling == InitCulling /\ [][NextCulling]_vars

----------------------------------------------------------------------------
(* SpecRenderer: a ShapeRenderer, its pool of meshes and the calls of
   shape_renderer.rs *)

\* the shader variant the pooled meshes are initialised with
PoolShaders == {"Colored"}

TargetFormats == {"Bgra8Unorm"}

DepthStencils == {None, Some("Depth32Float")}

\* the values the caller gives the public fields shader and blend
Selections == {<<"Colored", None>>, <<"TwoColoredTextured", Some("ALPHA_BLENDING")>>}

\* the vertices handed to vertex: <<x, y, r, g, b, a>>
VertexInputs == {<<1, 2, 3, 4, 5, 6>>}

\* the caller pushes Mesh::new() onto the public field meshes
push_mesh ==
    /\ Len(meshes) < PoolSize
    /\ meshes' = Append(meshes, Mesh_new)
    /\ ret' = Call("push_mesh", <<>>, "Ok", <<>>, <<>>)
    /\ RendererUnchanged /\ CullingUnchanged

\* the caller advances the public field draw_calls to the next mesh
advance_draw_calls ==
    /\ draw_calls < MaxDrawCalls
    /\ draw_calls' = draw_calls + 1
    /\ ret' = Call("draw_calls", <<>>, "Ok", <<>>, <<>>)
    /\ UNCHANGED <<meshes, shader, blend, is_drawing, pipeline_key, vertex_index>>
    /\ CullingUnchanged

\* the caller assigns the public fields shader and blend
select_shader ==
    \E sel \in Selections :
        /\ shader' = sel[1]
        /\ blend' = sel[2]
        /\ ret' = Call("shader", <<>>, "Ok", <<>>, <<>>)
        /\ UNCHANGED <<meshes, is_drawing, draw_calls, pipeline_key, vertex_index>>
        /\ CullingUnchanged

begin ==
    \E target_format \in TargetFormats, depth_stencil \in DepthStencils :
        LET cur == [shader |-> shader, blend |-> blend, draw_calls |-> draw_calls,
                    is_drawing |-> is_drawing, pipeline_key |-> pipeline_key,
                    vertex_index |-> vertex_index]
            r == ShapeRenderer_begin(cur, target_format, depth_stencil)
        IN /\ draw_calls' = r.draw_calls
           /\ vertex_index' = r.vertex_index
           /\ is_drawing' = r.is_drawing
           /\ pipeline_key' = r.pipeline_key
           /\ shader' = r.shader
           /\ blend' = r.blend
           /\ ret' = Call("begin",
                          [target_format |-> target_format, depth_stencil |-> depth_stencil],
                          "Ok", <<>>,
                          [draw_calls |-> draw_calls, is_drawing |-> is_drawing,
                           cached |-> pipeline_key # None])
           /\ UNCHANGED meshes
           /\ CullingUnchanged

vertex ==
    \E v \in VertexInputs :
        LET r == ShapeRenderer_vertex(meshes, draw_calls, vertex_index, v)
        IN /\ meshes' = r.meshes
           /\ vertex_index' = r.vertex_index
           /\ ret' = Call("vertex", [v |-> v], r.result, <<>>, <<>>)
           /\ UNCHANGED <<shader, blend, is_drawing, draw_calls, pipeline_key>>
           /\ CullingUnchanged

InitRenderer ==
    /\ meshes = <<>>
    /\ RendererNew
    /\ boundings = <<>>
    /\ result = <<>>
    /\ ret = NoCall

NextRenderer ==
    \/ push_mesh
    \/ init(PoolShaders)
    \/ advance_draw_calls
    \/ select_shader
    \/ begin
    \/ vertex

SpecRenderer == InitRenderer /\ [][NextRenderer]_vars

----------------------------------------------------------------------------
(* SpecBatch: vertex after vertex into pooled meshes of strides 8 and 12 *)

\* the shader variants the pooled meshes are initialised with: strides 8 and 12
BatchShaders == {"ColoredTextured", "TwoColoredTextured"}

NextBatch ==
    \/ push_mesh
    \/ init(BatchShaders)
    \/ advance_draw_calls
    \/ vertex

SpecBatch == InitRenderer /\ [][NextBatch]_vars

----------------------------------------------------------------------------
(* SpecPool: the meshes of one ShapeRenderer written through vertex and
   through the set calls of mesh.rs *)

\* every pooled mesh is initialised with the variant of stride 8
TexturedShaders == {"ColoredTextured"}

\* data one longer than the capacity of such a mesh
PoolVertexLens == {MAX_VERTICES * 8 + 1}

PoolIndexLens == {MAX_VERTICES * 3 + 1}

NextPool ==
    \/ push_mesh
    \/ init(TexturedShaders)
    \/ advance_draw_calls
    \/ vertex
    \/ set_vertices(PoolVertexLens)
    \/ set_indices(PoolIndexLens)

SpecPool == InitRenderer /\ [][NextPool]_vars

----------------------------------------------------------------------------
(* Claims about Mesh, checked under Spec *)

IsSetCall(r) == r.op \in {"set_vertices", "set_indices"}

\* the storage, logical length, dirty flag and buffer handle a set call is about
storage(m, op) == IF op = "set_vertices" THEN m.vertices ELSE m.indices
logical_length(m, op) == IF op = "set_vertices" THEN m.vertices_length ELSE m.indices_length
dirty(m, op) == IF op = "set_vertices" THEN m.dirty_vertices ELSE m.dirty_indices
buffer(m, op) == IF op = "set_vertices" THEN m.vertices_buffer ELSE m.indices_buffer

\* C1: after any sequence of init, set_vertices, set_indices,
\* set_vertices_length and set_indices_length calls, vertices_length <=
\* vertices.len() and indices_length <= indices.len().
C1_LengthWithinCapacity ==
    \A i \in DOMAIN meshes :
        /\ meshes[i].vertices_length <= Len(meshes[i].vertices)
        /\ meshes[i].indices_length <= Len(meshes[i].indices)

\* C2: set_vertices (set_indices) returns an error exactly when the data is
\* longer than the capacity; otherwise it succeeds, the data lies in the
\* backing storage from offset 0, the mesh is dirty, the logical length is
\* the data length, and the capacity is what it was.
C2_SetFitsOrFails ==
    [][IsSetCall(ret') =>
        LET op == ret'.op
            data == ret'.arg.data
            before == meshes[ret'.arg.mesh]
            after == meshes'[ret'.arg.mesh]
        IN /\ (ret'.result = "Err") <=> (Len(data) > Len(storage(before, op)))
           /\ ret'.result \in {"Ok", "Err"}
           /\ ret'.result = "Ok" =>
                /\ SubSeq(storage(after, op), 1, Len(data)) = data
                /\ \A k \in (Len(data) + 1)..Len(storage(before, op)) :
                        storage(after, op)[k] = storage(before, op)[k]
                /\ dirty(after, op)
                /\ logical_length(after, op) = Len(data)
                /\ Len(storage(after, op)) = Len(storage(before, op))
      ]_vars

\* a set call wrote data as long as the capacity of an allocated mesh
C2_Witness ==
    /\ ret.op = "set_vertices"
    /\ ret.result = "Ok"
    /\ Len(ret.arg.data) = Len(meshes[ret.arg.mesh].vertices)
    /\ Len(ret.arg.data) > 0

\* C3: a set_vertices or set_indices call that fails leaves the mesh exactly
\* as it was: storage, logical lengths, dirty flags and buffer handles.
C3_FailedSetLeavesMesh ==
    [][(IsSetCall(ret') /\ ret'.result = "Err") => meshes' = meshes]_vars

\* the stride the allocated vertex storage was sized for
allocated_stride(m) == Len(m.vertices) \div MAX_VERTICES

\* C4: init reallocates only when the new variant's stride exceeds the stride
\* of the allocated storage; otherwise the capacity is unchanged, so the
\* vertex capacity never decreases.
C4_InitNeverShrinks ==
    [][ret'.op = "init" =>
        LET before == meshes[ret'.arg.mesh]
            after == meshes'[ret'.arg.mesh]
            stride == elements(shader_attributes(ret'.arg.shader))
        IN /\ stride <= allocated_stride(before) =>
                /\ after.vertices = before.vertices
                /\ after.indices = before.indices
                /\ after.vertices_buffer = before.vertices_buffer
                /\ after.indices_buffer = before.indices_buffer
           /\ Len(after.vertices) >= Len(before.vertices)
      ]_vars

\* C5: a successful set_vertices (set_indices) on a mesh that holds a buffer
\* handle keeps that handle and writes the buffer in place; only the write
\* that finds no handle creates one; and a handle is lost only to an init
\* that reallocates.
C5_BufferReused ==
    [][\A i \in DOMAIN meshes :
        /\ (IsSetCall(ret') /\ ret'.arg.mesh = i /\ ret'.result = "Ok") =>
             IF buffer(meshes[i], ret'.op) # None
             THEN /\ buffer(meshes'[i], ret'.op) = buffer(meshes[i], ret'.op)
                  /\ ret'.out = "write"
             ELSE /\ buffer(meshes'[i], ret'.op) # None
                  /\ ret'.out = "create"
        /\ \A op \in {"set_vertices", "set_indices"} :
             (buffer(meshes[i], op) # None /\ buffer(meshes'[i], op) # buffer(meshes[i], op)) =>
                /\ ret'.op = "init"
                /\ ret'.arg.mesh = i
                /\ buffer(meshes'[i], op) = None
      ]_vars

\* a second set_vertices wrote the buffer the first one created
C5_Witness ==
    /\ ret.op = "set_vertices"
    /\ ret.result = "Ok"
    /\ ret.out = "write"
    /\ meshes[ret.arg.mesh].vertices_buffer # None
    /\ meshes[ret.arg.mesh].vertices_length > 0

draw_indexed_cmds(cmds) == { k \in DOMAIN cmds : cmds[k].cmd = "draw_indexed" }

\* C6: draw panics whenever the vertex or the index buffer handle is absent;
\* with both present it issues exactly one indexed draw, over
\* 0..indices_length; either way it changes no mesh state.
C6_DrawNeedsBuffers ==
    [][ret'.op = "draw" =>
        LET m == meshes[ret'.arg.mesh]
        IN /\ meshes' = meshes
           /\ (m.vertices_buffer = None \/ m.indices_buffer = None) =>
                /\ ret'.result = "panic"
                /\ draw_indexed_cmds(ret'.out) = {}
           /\ (m.vertices_buffer # None /\ m.indices_buffer # None) =>
                /\ ret'.result = "Ok"
                /\ Cardinality(draw_indexed_cmds(ret'.out)) = 1
                /\ \A k \in draw_indexed_cmds(ret'.out) :
                        ret'.out[k].first = 0 /\ ret'.out[k].last = m.indices_length
      ]_vars

\* draw panicked on an initialised mesh whose vertices were written and whose
\* indices were not
C6_Witness ==
    /\ ret.op = "draw"
    /\ ret.result = "panic"
    /\ meshes[ret.arg.mesh].shader # None
    /\ meshes[ret.arg.mesh].vertices_buffer # None
    /\ meshes[ret.arg.mesh].indices_buffer = None

----------------------------------------------------------------------------
(* Claims about culling, checked under SpecCulling *)

\* C7: check_boundings on N bounding infos leaves result holding exactly N
\* booleans, whatever it held before, result[i] being the test of
\* boundings[i] on its own, in input order.
C7_CheckBoundingsPointwise ==
    ret.op = "check_boundings" =>
        /\ Len(result) = Len(boundings)
        /\ \A i \in DOMAIN boundings :
            result[i] = BoundingInfo_is_in_frustum(boundings[i],
                                                   FrustumPlanes_new(ret.arg.frustum)).value

\* two infos with different outcomes, checked into a vector that held three
C7_Witness ==
    /\ ret.op = "check_boundings"
    /\ ret.pre.result_len = 3
    /\ Len(boundings) = 2
    /\ result = <<TRUE, FALSE>>

C9_StrategyHonoured ==
    ret.op = "is_in_frustum" =>
        LET b == boundings[ret.arg.index]
            frustum_planes == FrustumPlanes_new(ret.arg.frustum)
            sphere == BoundingSphere_is_in_frustum(b.bounding_sphere, frustum_planes)
            box == BoundingBox_is_in_frustum(b.bounding_box, frustum_planes)
        IN IF b.culling_strategy = "Optimistic"
           THEN ret.result = sphere /\ ret.out.box_tests = 0
           ELSE ret.result = (sphere /\ box)

----------------------------------------------------------------------------
(* Claims about ShapeRenderer, checked under SpecRenderer *)

\* C10: begin, called in any renderer state, leaves draw_calls = 0,
\* is_drawing = true and the pipeline key of the current (shader, blend,
\* target format, depth-stencil) combination cached.
C10_BeginResets ==
    ret.op = "begin" =>
        /\ draw_calls = 0
        /\ is_drawing = TRUE
        /\ pipeline_key =
             Some([shader |-> shader, blend |-> blend,
                   format |-> ret.arg.target_format,
                   depth_stencil |-> ret.arg.depth_stencil])

\* begin was called while drawing, with the counter advanced and the key of
\* another combination cached
C10_Witness ==
    /\ ret.op = "begin"
    /\ ret.pre.draw_calls > 0
    /\ ret.pre.is_drawing
    /\ ret.pre.cached
    /\ shader = "TwoColoredTextured"
    /\ blend # None

----------------------------------------------------------------------------
(* Claims about vertex, checked under SpecBatch *)

\* the mesh vertex writes: the one at index draw_calls
current_mesh(ms) == ms[draw_calls + 1]

\* C11 as stated: a vertex call that returns advances the cursor by the
\* stride of the mesh at index draw_calls (its per-vertex element count).
C11_AdvancesByMeshStride ==
    [][(ret'.op = "vertex" /\ ret'.result = "Ok") =>
            vertex_index' = vertex_index + current_mesh(meshes).element_per_vertex
      ]_vars

\* C11: a vertex call that returns has stored its six floats in the mesh at
\* index draw_calls from the cursor on, has left every other float and the
\* capacity of that mesh alone, and has advanced the cursor by 6, the stride
\* of the renderer's own layout (position + colour), whatever the stride of
\* the mesh: successive vertices lie in consecutive 6-float slots.
C11_AdvancesBySix ==
    [][(ret'.op = "vertex" /\ ret'.result = "Ok") =>
        LET before == current_mesh(meshes).vertices
            after == current_mesh(meshes').vertices
            stride == ShapeRenderer_elements_per_vertex
        IN /\ stride = 6
           /\ vertex_index' = vertex_index + stride
           /\ Len(after) = Len(before)
           /\ SubSeq(after, vertex_index + 1, vertex_index + stride) = ret'.arg.v
           /\ \A k \in DOMAIN before :
                    (k <= vertex_index \/ k > vertex_index + stride) => after[k] = before[k]
      ]_vars

\* two vertices in a row lie in floats 1..6 and 7..12 of a mesh of stride 8
C11_Witness ==
    /\ ret.op = "vertex"
    /\ ret.result = "Ok"
    /\ vertex_index = 12
    /\ draw_calls < Len(meshes)
    /\ current_mesh(meshes).element_per_vertex = 8
    /\ SubSeq(current_mesh(meshes).vertices, 1, 12) = ret.arg.v \o ret.arg.v

----------------------------------------------------------------------------
(* Claims about the culling queries, checked under SpecCulling *)

IsQuery(r) == r.op \in {"is_in_frustum", "check_boundings"}

\* C12: is_in_frustum and check_boundings leave every bounding info (extents,
\* box, sphere, directions, strategy) exactly as it was, and the same call
\* made again with the same frustum gives the same result.
C12_QueriesArePure ==
    [][IsQuery(ret') =>
        /\ boundings' = boundings
        /\ (ret.op = ret'.op /\ ret.arg = ret'.arg) =>
                /\ ret'.result = ret.result
                /\ ret'.out = ret.out
                /\ ret.op = "check_boundings" => result' = result
      ]_vars

\* check_boundings ran over two bounding infos, one of them no longer the
\* default one, onto the results of an earlier run over the same two
C12_Witness ==
    /\ ret.op = "check_boundings"
    /\ Len(boundings) = 2
    /\ ret.pre.result_len = 2
    /\ Len(result) = 2
    /\ \E i \in DOMAIN boundings : boundings[i] # BoundingInfo_default

----------------------------------------------------------------------------
(* Claims about the pool of meshes, checked under SpecPool *)

\* every mesh of the pool but the one at position i is what it was
others_unchanged(i) ==
    /\ Len(meshes') = Len(meshes)
    /\ \A j \in DOMAIN meshes : j # i => meshes'[j] = meshes[j]

\* C13: a vertex call, returning or panicking, changes no mesh of the pool
\* other than the one at index draw_calls, and a set_vertices or set_indices
\* call that fails on one mesh changes no other mesh.
C13_SiblingsUntouched ==
    [][/\ ret'.op = "vertex" => others_unchanged(draw_calls + 1)
       /\ (IsSetCall(ret') /\ ret'.result = "Err") => others_unchanged(ret'.arg.mesh)
      ]_vars

\* a vertex call panicked on the second mesh after storing part of the
\* vertex, while the first mesh holds an earlier vertex and a failed
\* set_indices has marked the second mesh dirty
C13_Witness ==
    /\ ret.op = "vertex"
    /\ ret.result = "panic"
    /\ draw_calls = 1
    /\ Len(meshes) = 2
    /\ Len(meshes[1].vertices) >= 6
    /\ SubSeq(meshes[1].vertices, 1, 6) = ret.arg.v
    /\ meshes[2].vertices # zeros(Len(meshes[2].vertices))
    /\ meshes[2].dirty_indices
    /\ ~meshes[1].dirty_indices

----------------------------------------------------------------------------
(* Claims about init, checked under Spec *)

\* C14: an init that reallocates leaves MAX_VERTICES * new stride zeroed
\* floats, MAX_VERTICES * 3 zeroed indices and no buffer handle, and the
\* successful set_vertices (set_indices) right after it creates a buffer.
C14_ReallocStartsAfresh ==
    [][/\ (ret'.op = "init" /\ ret'.out.branch = "realloc") =>
            LET after == meshes'[ret'.arg.mesh]
                stride == elements(shader_attributes(ret'.arg.shader))
            IN /\ after.vertices = zeros(MAX_VERTICES * stride)
               /\ after.indices = zeros(MAX_VERTICES * 3)
               /\ after.vertices_buffer = None
               /\ after.indices_buffer = None
       /\ (/\ ret.op = "init" /\ ret.out.branch = "realloc"
           /\ IsSetCall(ret') /\ ret'.arg.mesh = ret.arg.mesh /\ ret'.result = "Ok") =>
            /\ ret'.out = "create"
            /\ buffer(meshes'[ret'.arg.mesh], ret'.op) # None
      ]_vars

\* a mesh of stride 6 that held both buffers was reallocated for stride 8
C14_Witness ==
    /\ ret.op = "init"
    /\ ret.out.branch = "realloc"
    /\ Cardinality(ret.out.dropped) = 2
    /\ ret.arg.shader = "ColoredTextured"
    /\ Len(meshes[ret.arg.mesh].vertices) = MAX_VERTICES * 8
    /\ meshes[ret.arg.mesh].vertices_buffer = None

----------------------------------------------------------------------------
(* Claims about the lifecycle of a mesh, checked under SpecLive *)

\* a set call has just uploaded data that is not empty
Uploaded == IsSetCall(ret) /\ ret.result = "Ok" /\ Len(ret.arg.data) > 0

\* the state uploaded(clean) of the vertices or of the indices: a live buffer
\* handle, a logical length above 0 and the dirty flag cleared
UploadedClean ==
    \E i \in DOMAIN meshes, op \in {"set_vertices", "set_indices"} :
        /\ buffer(meshes[i], op) # None
        /\ logical_length(meshes[i], op) > 0
        /\ ~dirty(meshes[i], op)

\* C15: once vertices or indices have been set and uploaded, the mesh reaches
\* the state uploaded(clean): a live buffer handle, a logical length above 0
\* and the dirty flag cleared.
C15_ReachesUploadedClean == Uploaded ~> UploadedClean

----------------------------------------------------------------------------
(* Claims about the cached directions, checked under SpecCulling *)

\* the world matrices the box of b is the box of, among those handed in
worlds_of_box(b) ==
    { world \in Worlds \cup {Matrix_identity} :
        b.bounding_box = BoundingBox_new(b.minimum, b.maximum, world) }

\* C16: in every state of a BoundingInfo, after default and any resets and
\* updates, direction0..direction2 are rows 0..2 of the world matrix its
\* bounding box was computed from.
C16_DirectionsFollowBox ==
    \A i \in DOMAIN boundings :
        \A world \in worlds_of_box(boundings[i]) :
            /\ boundings[i].direction0 = Matrix_row(world, 0)
            /\ boundings[i].direction1 = Matrix_row(world, 1)
            /\ boundings[i].direction2 = Matrix_row(world, 2)

----------------------------------------------------------------------------
(* Claims about the buffers and init, checked under Spec *)

\* C17: whenever a mesh holds a vertex (index) buffer handle, the size of
\* that buffer is the full capacity of the vertex (index) backing storage,
\* which is what every in-place update writes at offset 0.
C17_BufferSizedToCapacity ==
    \A i \in DOMAIN meshes :
        /\ meshes[i].vertices_buffer # None =>
                meshes[i].vertices_buffer[1].size = Len(meshes[i].vertices)
        /\ meshes[i].indices_buffer # None =>
                meshes[i].indices_buffer[1].size = Len(meshes[i].indices)

\* data shorter than the capacity was written in place into a buffer of the
\* full capacity of a mesh allocated for stride 8
C17_Witness ==
    /\ ret.op = "set_vertices"
    /\ ret.result = "Ok"
    /\ ret.out = "write"
    /\ Len(ret.arg.data) = MAX_VERTICES * 6
    /\ Len(meshes[ret.arg.mesh].vertices) = MAX_VERTICES * 8
    /\ meshes[ret.arg.mesh].vertices_buffer # None
    /\ meshes[ret.arg.mesh].indices_buffer # None

\* C18: every init leaves both logical lengths 0 and both dirty flags false
\* and records the shader and its stride; an init that does not reallocate
\* leaves the backing storage, the capacities and both buffer handles as
\* they were.
C18_InitResetsAndKeeps ==
    [][ret'.op = "init" =>
        LET before == meshes[ret'.arg.mesh]
            after == meshes'[ret'.arg.mesh]
        IN /\ after.vertices_length = 0
           /\ after.indices_length = 0
           /\ ~after.dirty_vertices
           /\ ~after.dirty_indices
           /\ after.shader = Some(ret'.arg.shader)
           /\ after.element_per_vertex = elements(shader_attributes(ret'.arg.shader))
           /\ ret'.out.branch = "keep" =>
                /\ after.vertices = before.vertices
                /\ after.indices = before.indices
                /\ after.num_vertices = before.num_vertices
                /\ after.num_indices = before.num_indices
                /\ after.vertices_buffer = before.vertices_buffer
                /\ after.indices_buffer = before.indices_buffer
      ]_vars

\* an init that did not reallocate: the mesh still holds the data and both
\* buffers of the frame before, with its lengths back at 0
C18_Witness ==
    /\ ret.op = "init"
    /\ ret.out.branch = "keep"
    /\ meshes[ret.arg.mesh].vertices # zeros(Len(meshes[ret.arg.mesh].vertices))
    /\ meshes[ret.arg.mesh].vertices_buffer # None
    /\ meshes[ret.arg.mesh].indices_buffer # None
    /\ meshes[ret.arg.mesh].vertices_length = 0
    /\ ~meshes[ret.arg.mesh].dirty_vertices

----------------------------------------------------------------------------
(* Claims about the vertex cursor, checked under SpecRenderer *)

\* C19: begin leaves the vertex cursor and every mesh as they were, and no
\* call ever lowers the cursor: over begin and vertex calls it never
\* decreases, so a vertex written after a later begin lands behind those of
\* the frame before.
C19_CursorNeverResets ==
    [][/\ vertex_index' >= vertex_index
       /\ ret'.op = "begin" => (vertex_index' = vertex_index /\ meshes' = meshes)
      ]_vars

\* the begin of a second frame found the cursor behind the vertex of the
\* first frame and left it there
C19_Witness ==
    /\ ret.op = "begin"
    /\ ret.pre.is_drawing
    /\ vertex_index = 6
    /\ \E i \in DOMAIN meshes :
            /\ Len(meshes[i].vertices) >= 6
            /\ SubSeq(meshes[i].vertices, 1, 6) \in VertexInputs

----------------------------------------------------------------------------
(* Claims about a failing vertex, checked under SpecBatch *)

\* C20 as stated: a vertex call that fails (cursor + 6 beyond the capacity
\* of the mesh, or no mesh at index draw_calls) leaves the cursor and the
\* storage of every mesh exactly as they were.
C20_FailureLeavesStorage ==
    [][(ret'.op = "vertex" /\ ret'.result = "panic") =>
            (vertex_index' = vertex_index /\ meshes' = meshes)
      ]_vars

\* C20: vertex never changes the capacity of a mesh; it fails exactly when
\* there is no mesh at index draw_calls or cursor + 6 exceeds the capacity
\* of that mesh; a failing call leaves the cursor, every other mesh and
\* every float in front of the cursor as they were, and has stored the
\* leading floats of the vertex that fit between the cursor and the end of
\* the storage.
C20_FailureKeepsCursor ==
    [][ret'.op = "vertex" =>
        /\ Len(meshes') = Len(meshes)
        /\ \A j \in DOMAIN meshes : Len(meshes'[j].vertices) = Len(meshes[j].vertices)
        /\ (ret'.result = "panic") <=>
                \/ draw_calls >= Len(meshes)
                \/ vertex_index + 6 > Len(current_mesh(meshes).vertices)
        /\ ret'.result = "panic" =>
                /\ vertex_index' = vertex_index
                /\ draw_calls >= Len(meshes) => meshes' = meshes
                /\ draw_calls < Len(meshes) =>
                        LET before == current_mesh(meshes)
                            after == current_mesh(meshes')
                        IN /\ after = [before EXCEPT !.vertices = after.vertices]
                           /\ \A k \in DOMAIN before.vertices :
                                after.vertices[k] =
                                    IF k > vertex_index
                                    THEN ret'.arg.v[k - vertex_index]
                                    ELSE before.vertices[k]
      ]_vars

\* a vertex call failed on a mesh of stride 8 with the cursor less than six
\* floats from the end: the floats that fit were stored, the cursor stayed
C20_Witness ==
    /\ ret.op = "vertex"
    /\ ret.result = "panic"
    /\ draw_calls < Len(meshes)
    /\ current_mesh(meshes).element_per_vertex = 8
    /\ vertex_index > 0
    /\ vertex_index < Len(current_mesh(meshes).vertices)
    /\ SubSeq(current_mesh(meshes).vertices, vertex_index + 1,
              Len(current_mesh(meshes).vertices))
         = SubSeq(ret.arg.v, 1, Len(current_mesh(meshes).vertices) - vertex_index)

====
